---- MODULE Spec2Model ----
(***************************************************************************)
(* State-machine model of watertap.ui.api.FlowsheetInterface: the workflow *)
(* action registry (add_action_type, set_action, get_action, run_action)   *)
(* the import of a document into the bound block tree (update, load) and   *)
(* the export of the tree as a document (as_dict, save).                   *)
(* Every public method is one atomic action: the code is single-threaded   *)
(* and synchronous, so a call runs to its return or to its exception.      *)
(***************************************************************************)
EXTENDS Integers, Sequences, FiniteSets, TLC

VARIABLES
    actions,        \* self._actions: name -> <<func, kwargs>>
    actions_deps,   \* self._actions_deps: name -> list of dependency names
    actions_run,    \* self._actions_run: set of names marked run
    registered,     \* the names whose registration went through
    block,          \* self._block: the bound root block, or None
    ui,             \* the .ui attribute of the blocks that carry one
    value,          \* the current value of every variable of every block
    meta,           \* self.meta: top-level metadata of the last document
    var_diff,       \* self._var_diff: the missing/extra maps of the last load
    saved,          \* the file save() wrote, with what it was exported from
    options,        \* self._saved_options: the options map given at construction
    last            \* the most recent call: operation, argument, outcome

vars == <<actions, actions_deps, actions_run, registered, block, ui, value, meta, var_diff, saved, options, last>>

regvars == <<actions, actions_deps, actions_run, registered>>
treevars == <<block, ui, value, meta, var_diff, saved, options>>

(***************************************************************************)
(* Bounds of the model.                                                    *)
(***************************************************************************)
\* longest dependency list passed to add_action_type
MaxDeps == 2
\* longest dependency list passed to add_action_type where actions are run
MaxRunDeps == 1
\* call depth at which the interpreter gives up a recursion
MaxDepth == 8
\* iterations after which the invalidation loop is known not to end
MaxLoop == 16

(***************************************************************************)
(* WorkflowActions and the values the callers pass in.                     *)
(***************************************************************************)
build == "build"
solve == "solve"
results == "get-results"

\* the standard actions plus one user-defined name
Names == {build, solve, results, "x"}

\* the iteration order of the keys of the dependency table
KeyOrder == <<build, solve, results, "x">>

\* None
None == "None"

\* registered functions: "fn" returns normally, "boom" raises
Funcs == {"fn", "boom"}

\* keyword-argument maps given to set_action
Kwargs == {"k0", "k1"}

\* the (func, kwargs) pairs given to set_action
SetArgs == {<<"fn", "k0">>, <<"boom", "k1">>}

Range(s) == {s[i] : i \in DOMAIN s}

\* dependency lists without repeated entries, up to MaxDeps long
DepLists == UNION {{s \in [1..n -> Names] : \A i, j \in 1..n : s[i] = s[j] => i = j} : n \in 0..MaxDeps}

\* the deps argument of add_action_type: omitted (None) or a list
DepsArgs == {[given |-> FALSE, list |-> <<>>]} \cup {[given |-> TRUE, list |-> s] : s \in DepLists}

DepListsUpTo(m) == UNION {{s \in [1..n -> Names] : \A i, j \in 1..n : s[i] = s[j] => i = j} : n \in 0..m}

\* the position of a name in KeyOrder
key_pos(n) == CHOOSE i \in DOMAIN KeyOrder : KeyOrder[i] = n

\* the deps argument where actions are run: omitted, or a list written in
\* key order
RunDepsArgs == {[given |-> FALSE, list |-> <<>>]} \cup {[given |-> TRUE, list |-> s] : s \in {t \in DepListsUpTo(MaxRunDeps) : \A i, j \in DOMAIN t : i < j => key_pos(t[i]) < key_pos(t[j])}}

\* WorkflowActions.deps
WorkflowActions_deps == (build :> <<>>) @@ (solve :> <<build>>) @@ (results :> <<solve>>)

\* FlowsheetInterface.ACTIONS
InitialActions == {build, solve}

\* a call record: op and name say what was called, arg classifies the other
\* argument, exc is the exception raised ("" when the call returned), calls
\* the registered functions invoked in order, cleared the actions whose run
\* status the call removed, ret what it returned, args the list argument
\* of a call that takes one
NoCall == [op |-> "init", name |-> "", arg |-> "", exc |-> "", calls |-> <<>>, cleared |-> {}, ret |-> <<>>, args |-> <<>>]

(***************************************************************************)
(* Run status.                                                             *)
(***************************************************************************)
\* mutation: the run status is never found set
action_was_run_never(name, run) == FALSE

action_was_run(name, run) == name \in run

action_clear_was_run(name, run) == run \ {name}

\* the actions whose dependency list holds name, in key order
dependents(name) ==
    SelectSeq(KeyOrder, LAMBDA a : a \in DOMAIN actions_deps /\ name \in Range(actions_deps[a]))

RECURSIVE clear_loop(_, _, _)
\* the while loop of _action_clear_depends_on over the list `affected`
clear_loop(affected, run, fuel) ==
    IF affected = <<>> THEN [run |-> run, hang |-> FALSE]
    ELSE IF fuel = 0 THEN [run |-> run, hang |-> TRUE]
    ELSE LET aff == affected[Len(affected)]
             rest == SubSeq(affected, 1, Len(affected) - 1)
             run2 == IF action_was_run(aff, run) THEN action_clear_was_run(aff, run) ELSE run
         IN  clear_loop(rest \o dependents(aff), run2, fuel - 1)

\* mutation: only the direct dependents are cleared
action_clear_direct(name, run) == [run |-> run \ Range(dependents(name)), hang |-> FALSE]

action_clear_depends_on(name, run) == clear_loop(dependents(name), run, MaxLoop)

\* clear the dependents, then mark name as run
action_set_was_run(name, st) ==
    LET c == action_clear_depends_on(name, st.run)
        cleared == st.cleared \cup (st.run \ c.run)
    IN  IF c.hang THEN [st EXCEPT !.run = c.run, !.cleared = cleared, !.exc = "Hang"]
        ELSE [st EXCEPT !.run = c.run \cup {name}, !.cleared = cleared]

(***************************************************************************)
(* run_action and _run_deps, which call each other.  st is the run set,    *)
(* the functions invoked so far, the run statuses removed so far and the   *)
(* exception in flight ("" if none).                                       *)
(***************************************************************************)
check_action(name) == name \in DOMAIN actions

\* the call func(block=..., ui=..., **kwargs): TRUE when it returns
func_returns(name) == actions[name][1] = "fn"

RECURSIVE run_action(_, _, _)
RECURSIVE run_deps(_, _, _, _)

\* mutation: the action is marked run before its function is invoked
run_action_mark_first(name, st, depth) ==
    IF depth > MaxDepth THEN [st EXCEPT !.exc = "RecursionError"]
    ELSE IF ~check_action(name) THEN [st EXCEPT !.exc = "KeyError"]
    ELSE IF action_was_run(name, st.run) THEN st
    ELSE IF name \notin DOMAIN actions_deps THEN [st EXCEPT !.exc = "KeyError"]
    ELSE LET s1 == run_deps(name, 1, st, depth)
         IN  IF s1.exc # "" THEN s1
             ELSE IF actions[name][1] = None THEN [s1 EXCEPT !.exc = "ValueError"]
             ELSE LET s2 == action_set_was_run(name, [s1 EXCEPT !.calls = Append(s1.calls, name)])
                  IN  IF s2.exc = "" /\ ~func_returns(name) THEN [s2 EXCEPT !.exc = "FuncError"] ELSE s2

run_action(name, st, depth) ==
    IF depth > MaxDepth THEN [st EXCEPT !.exc = "RecursionError"]
    ELSE IF ~check_action(name) THEN [st EXCEPT !.exc = "KeyError"]
    ELSE IF action_was_run(name, st.run) THEN st
    ELSE IF name \notin DOMAIN actions_deps THEN [st EXCEPT !.exc = "KeyError"]
    ELSE LET s1 == run_deps(name, 1, st, depth)
         IN  IF s1.exc # "" THEN s1
             ELSE IF actions[name][1] = None THEN [s1 EXCEPT !.exc = "ValueError"]
             ELSE LET s2 == [s1 EXCEPT !.calls = Append(s1.calls, name)]
                  IN  IF ~func_returns(name) THEN [s2 EXCEPT !.exc = "FuncError"]
                      ELSE action_set_was_run(name, s2)

\* the for loop of _run_deps from position i of the dependency list
run_deps(name, i, st, depth) ==
    LET dependencies == actions_deps[name]
    IN  IF i > Len(dependencies) \/ st.exc # "" THEN st
        ELSE LET dep == dependencies[i]
                 s1 == IF ~action_was_run(dep, st.run) THEN run_action(dep, st, depth + 1) ELSE st
             IN  run_deps(name, i + 1, s1, depth)

(***************************************************************************)
(* add_action_type.                                                        *)
(***************************************************************************)
RECURSIVE verify_deps_known_only(_, _, _, _)
\* mutation: only the keys of _actions count as known dependencies
verify_deps_known_only(action_type, deps, i, known) ==
    IF i > Len(deps) THEN ""
    ELSE IF deps[i] \notin known THEN "KeyError"
    ELSE IF deps[i] = action_type THEN "ValueError"
    ELSE verify_deps_known_only(action_type, deps, i + 1, known)

RECURSIVE verify_deps_allow_self(_, _, _, _)
\* mutation: a dependency of an action on itself is let through
verify_deps_allow_self(action_type, deps, i, known) ==
    IF i > Len(deps) THEN ""
    ELSE IF deps[i] \notin known /\ deps[i] \notin DOMAIN actions_deps THEN "KeyError"
    ELSE verify_deps_allow_self(action_type, deps, i + 1, known)

RECURSIVE verify_deps(_, _, _, _)
\* the verification loop over deps from position i; known is the key set
\* of _actions at that point, which already holds action_type
verify_deps(action_type, deps, i, known) ==
    IF i > Len(deps) THEN ""
    ELSE IF deps[i] \notin known /\ deps[i] \notin DOMAIN actions_deps THEN "KeyError"
    ELSE IF deps[i] = action_type THEN "ValueError"
    ELSE verify_deps(action_type, deps, i + 1, known)

\* _actions after  self._actions[action_type] = (None, None)
register(action_type) ==
    [n \in DOMAIN actions \cup {action_type} |-> IF n = action_type THEN <<None, None>> ELSE actions[n]]

\* _actions_deps after  self._actions_deps[action_type] = deps
set_deps(action_type, deps) ==
    [n \in DOMAIN actions_deps \cup {action_type} |-> IF n = action_type THEN deps ELSE actions_deps[n]]

(***************************************************************************)
(* The operations.  A call that never returns leaves the interface hung.   *)
(***************************************************************************)
Live == last.exc # "Hang"

\* deps names action_type itself or a name add_action_type rejects
invalid_deps(action_type, d) ==
    d.given /\ \E e \in Range(d.list) : e = action_type \/ (e \notin DOMAIN actions /\ e \notin DOMAIN actions_deps)

add_call(action_type, d) ==
    [NoCall EXCEPT !.op = "add_action_type", !.name = action_type,
                   !.arg = IF invalid_deps(action_type, d) THEN "invalid" ELSE "valid"]

\* add_action_type past the check for a known name
add_new(action_type, d) ==
    LET e == IF d.given THEN verify_deps(action_type, d.list, 1, DOMAIN register(action_type)) ELSE ""
    IN  /\ actions' = register(action_type)
        /\ actions_deps' = IF e = "" THEN set_deps(action_type, d.list) ELSE actions_deps
        /\ registered' = IF e = "" THEN registered \cup {action_type} ELSE registered
        /\ last' = [add_call(action_type, d) EXCEPT !.exc = e]

\* mutation: a known name is registered again
AddActionTypeAgain(action_type, d) ==
    /\ Live
    /\ add_new(action_type, d)
    /\ UNCHANGED <<actions_run, treevars>>

AddActionType(action_type, d) ==
    /\ Live
    /\ IF action_type \in DOMAIN actions
       THEN /\ UNCHANGED <<actions, actions_deps, registered>>
            /\ last' = [add_call(action_type, d) EXCEPT !.ret = <<"known">>]
       ELSE add_new(action_type, d)
    /\ UNCHANGED <<actions_run, treevars>>

SetAction(name, func, kwargs) ==
    /\ Live
    /\ IF check_action(name)
       THEN /\ actions' = [actions EXCEPT ![name] = <<func, kwargs>>]
            /\ last' = [NoCall EXCEPT !.op = "set_action", !.name = name]
       ELSE /\ UNCHANGED actions
            /\ last' = [NoCall EXCEPT !.op = "set_action", !.name = name, !.exc = "KeyError"]
    /\ UNCHANGED <<actions_deps, actions_run, registered, treevars>>

GetAction(name) ==
    /\ Live
    /\ IF check_action(name)
       THEN last' = [NoCall EXCEPT !.op = "get_action", !.name = name, !.ret = actions[name]]
       ELSE last' = [NoCall EXCEPT !.op = "get_action", !.name = name, !.exc = "KeyError"]
    /\ UNCHANGED <<actions, actions_deps, actions_run, registered, treevars>>

RunAction(name) ==
    /\ Live
    /\ LET st == run_action(name, [run |-> actions_run, calls |-> <<>>, cleared |-> {}, exc |-> ""], 1)
       IN  /\ actions_run' = st.run
           /\ last' = [NoCall EXCEPT !.op = "run_action", !.name = name, !.exc = st.exc, !.calls = st.calls, !.cleared = st.cleared,
                                     !.ret = IF st.exc = "" /\ name \notin actions_run THEN <<"result", name>> ELSE <<>>]
    /\ UNCHANGED <<actions, actions_deps, registered, treevars>>

(***************************************************************************)
(* The block tree.  The modelling framework owns it: a root block "fs"     *)
(* with the sub-blocks "unit" and "pipe", and "pump" under "pipe".  unit   *)
(* had its interface attached while the model was built; the root gets the *)
(* FlowsheetInterface itself through set_block; pipe and pump get one when *)
(* export_variables is called for them.                                    *)
(***************************************************************************)
Blocks == {"fs", "unit", "pipe", "pump"}

\* block.name
block_name(b) == b

\* the sub-blocks of a block in the order component_map yields them
sub_blocks(b) == IF b = "fs" THEN <<"unit", "pipe">> ELSE IF b = "pipe" THEN <<"pump">> ELSE <<>>

\* block.component_map(ctype=Block): attribute name -> sub-block
component_map(b) == [n \in Range(sub_blocks(b)) |-> n]

\* the attributes of a block that are variables
block_vars(b) ==
    IF b = "fs" THEN {"foo", "baz"}
    ELSE IF b = "unit" THEN {"bar", "conc"}
    ELSE IF b = "pipe" THEN {"len"}
    ELSE {"flow", "mix"}

\* the attributes of a block that are set to None
none_attrs(b) == IF b = "fs" THEN {"nil"} ELSE {}

\* index values: a number, a string, or a tuple of numbers and strings
IntIdx(n) == [kind |-> "int", v |-> n]
StrIdx(s) == [kind |-> "str", v |-> s]
TupleIdx(t) == [kind |-> "tuple", v |-> t]

\* v.index_set() in iteration order; empty for a scalar variable
index_list(b, v) ==
    IF v = "conc" THEN <<StrIdx("H2O"), StrIdx("a")>>
    ELSE IF v = "flow" THEN <<IntIdx(0), IntIdx(1)>>
    ELSE IF v = "mix" THEN <<TupleIdx(<<IntIdx(0), StrIdx("H2O")>>), TupleIdx(<<IntIdx(1), StrIdx("H2O")>>)>>
    ELSE <<>>

index_set(b, v) == Range(index_list(b, v))

\* v.is_indexed()
is_indexed(b, v) == index_list(b, v) # <<>>

\* str(v.get_units()), None for a variable without units
var_units(b, v) == IF v \in {"foo", "conc"} THEN "m" ELSE None

\* the characters of a string, as iterating over it yields them
chars(s) == IF s = "H2O" THEN <<"H", "2", "O">> ELSE <<s>>

\* tuple(idx), and (idx,) where tuple() raises TypeError
idx_tuple(idx) ==
    IF idx.kind = "tuple" THEN idx.v
    ELSE IF idx.kind = "str" THEN [i \in DOMAIN chars(idx.v) |-> StrIdx(chars(idx.v)[i])]
    ELSE <<idx>>

\* the member of the index set that variable_obj[idx] addresses for a tuple
\* idx: a tuple of one element stands for the element
normalize_index(t) == IF Len(t) = 1 THEN t[1] ELSE TupleIdx(t)

\* block.doc, None for a block without a doc string
block_doc(b) == IF b = "pipe" THEN "Pipe block" ELSE None

\* the options the FlowsheetInterface was constructed with
saved_options == [variables |-> <<[name |-> "foo"]>>, display_name |-> "Flowsheet"]

\* key is missing from the options, or None
unset(opts, key) == key \notin DOMAIN opts \/ opts[key] = None

put(m, key, val) == [k \in DOMAIN m \cup {key} |-> IF k = key THEN val ELSE m[k]]

\* the assignments of _init to the options map it was given: a key that
\* is missing or None gets its default, a key that is set is left alone
with_display_name(opts, b) == IF unset(opts, "display_name") THEN put(opts, "display_name", block_name(b)) ELSE opts
with_description(opts, b) ==
    IF unset(opts, "description") THEN put(opts, "description", IF block_doc(b) # None THEN block_doc(b) ELSE "none") ELSE opts
with_category(opts, b) == IF unset(opts, "category") THEN put(opts, "category", "default") ELSE opts
set_defaults(opts, b) == with_category(with_description(with_display_name(opts, b), b), b)

\* the names of a list of variable declarations
decl_names(decls) == [i \in DOMAIN decls |-> decls[i].name]

\* the interface object _init leaves: the block it refers to and
\* self.config = self.CONFIG(options), for options with the defaults set;
\* variables holds the names of the declarations, decls the declarations
config(owner, b, opts) ==
    [owner |-> owner,
     block |-> b,
     variables |-> IF "variables" \in DOMAIN opts THEN decl_names(opts.variables) ELSE <<>>,
     decls |-> IF "variables" \in DOMAIN opts THEN opts.variables ELSE <<>>,
     display_name |-> opts.display_name,
     description |-> opts.description,
     category |-> opts.category]

\* BlockInterface._init: the interface for the options with the defaults
\* filled in
interface(owner, b, opts) == config(owner, b, set_defaults(opts, b))

\* the list of declarations export_variables builds from a list of names
name_decls(names) == [i \in DOMAIN names |-> [name |-> names[i]]]

\* the config export_variables builds when name, desc and category are omitted
export_config(decls) == [display_name |-> None, description |-> None, category |-> None, variables |-> decls]

\* the interface export_variables(unit, ["bar", "conc"]) attached when the model was built
unit_interface == interface("unit", "unit", export_config(name_decls(<<"bar", "conc">>)))

\* getattr(block, "ui", None) is not None
get_block_interface(b) == b \in DOMAIN ui

\* getattr(cur_block, name) for a sub-block name
has_sub_block(b, name) == name \in DOMAIN component_map(b)

(***************************************************************************)
(* Documents.  A node is a record that holds the keys it has.  A value is  *)
(* [scalar |-> x] for a bare value and [items |-> list] for the list of    *)
(* index/value pairs; an index is a list of numbers and strings.           *)
(***************************************************************************)
\* mutation: only the blocks key is required of a document
validate_blocks_only(d) == "blocks" \in DOMAIN d

RECURSIVE validate(_)
\* BLOCK_SCHEMA: name and blocks are required, every variable needs a name
validate(d) ==
    /\ "name" \in DOMAIN d
    /\ "blocks" \in DOMAIN d
    /\ ("variables" \in DOMAIN d => \A i \in DOMAIN d.variables : "name" \in DOMAIN d.variables[i])
    /\ \A i \in DOMAIN d.blocks : validate(d.blocks[i])

var_names(variables) == [i \in DOMAIN variables |-> variables[i].name]

\* isinstance(data_val, list)
is_list(data_val) == "items" \in DOMAIN data_val

\* mutation: every entry of the indexed variable takes the listed value
set_items_all(items, i, b, name, r) ==
    IF items = <<>> THEN r
    ELSE [r EXCEPT !.value[b][name] = [x \in index_set(b, name) |-> items[1].value]]

RECURSIVE set_items(_, _, _, _, _)
\* the loop over the index/value pairs of a document value, from position
\* i: r holds the values and the exception
set_items(items, i, b, name, r) ==
    IF i > Len(items) \/ r.exc # "" THEN r
    ELSE LET idx == normalize_index(items[i].index)
         IN  IF idx \notin index_set(b, name) THEN [r EXCEPT !.exc = "KeyError"]
             ELSE set_items(items, i + 1, b, name, [r EXCEPT !.value[b][name][idx] = items[i].value])

\* the value of a document variable applied to the live variable
apply_value(data_var, b, name, r) ==
    IF "value" \notin DOMAIN data_var THEN r
    ELSE IF is_list(data_var.value) THEN set_items(data_var.value.items, 1, b, name, r)
    ELSE [r EXCEPT !.value[b][name] = data_var.value.scalar]

RECURSIVE load_variables(_, _, _, _)
RECURSIVE remove_extra(_, _, _, _, _)
\* the loop of _load_variables over `variables` from position i, for block b;
\* r holds the values, the missing list, the names still counted extra and
\* the exception
load_variables(variables, i, b, r) ==
    IF i > Len(variables) \/ r.exc # "" THEN r
    ELSE LET data_var == variables[i]
             name == data_var.name
         IN  IF name \in none_attrs(b)
             THEN load_variables(variables, i + 1, b, [r EXCEPT !.missing = Append(r.missing, data_var)])
             ELSE IF name \notin block_vars(b) THEN [r EXCEPT !.exc = "AttributeError"]
             ELSE remove_extra(variables, i, b, name, apply_value(data_var, b, name, r))

\* result["extra"].remove(name) once the value is applied, and the rest of
\* the loop
remove_extra(variables, i, b, name, r) ==
    IF r.exc # "" THEN r
    ELSE IF name \notin r.extra THEN [r EXCEPT !.exc = "KeyError"]
    ELSE load_variables(variables, i + 1, b, [r EXCEPT !.extra = r.extra \ {name}])

\* mutation: no declared variable is counted
declared_none(b) == {}

\* the names of the variables the interface of a block declares
declared_names(b) == Range(ui[b].variables)

\* mutation: the key is the name of the block alone
block_key_local(parent_key, cur_block) == block_name(cur_block)

\* cur_block_key: the dot-joined names from the root
block_key(parent_key, cur_block) ==
    IF parent_key = None THEN block_name(cur_block) ELSE parent_key \o "." \o block_name(cur_block)

\* a variable name as an entry of a missing list
name_entry(n) == [str |-> n]

\* mutation: a block without an interface records nothing
missing_none(data_vars) == <<>>

\* the names of the document variables, as the missing list of a block
\* without an interface holds them
missing_names(data_vars) == [i \in DOMAIN data_vars |-> name_entry(data_vars[i].name)]

RECURSIVE load(_, _, _, _)
RECURSIVE load_blocks(_, _, _, _, _)

\* the result r of _load_variables saved into the maps under the key
save_diff(cur_block_key, ld, r) ==
    IF r.exc # "" THEN [ld EXCEPT !.value = r.value, !.exc = r.exc]
    ELSE [ld EXCEPT !.value = r.value,
                    !.missing = IF r.missing # <<>> THEN put(ld.missing, cur_block_key, r.missing) ELSE ld.missing,
                    !.extra = IF r.extra # {} THEN put(ld.extra, cur_block_key, r.extra) ELSE ld.extra]

\* the variables of one node of the document against the block
load_node(block_data, cur_block, cur_block_key, ld) ==
    IF get_block_interface(cur_block)
    THEN IF "variables" \in DOMAIN block_data
         THEN save_diff(cur_block_key, ld,
                        load_variables(block_data.variables, 1, ui[cur_block].block,
                                       [value |-> ld.value, missing |-> <<>>, extra |-> declared_names(cur_block), exc |-> ""]))
         ELSE IF declared_names(cur_block) # {} THEN [ld EXCEPT !.extra = put(ld.extra, cur_block_key, declared_names(cur_block))]
         ELSE ld
    ELSE IF "variables" \in DOMAIN block_data /\ block_data.variables # <<>>
         THEN [ld EXCEPT !.missing = put(ld.missing, cur_block_key, missing_names(block_data.variables))]
         ELSE ld

\* the descent of _load into the sub-blocks once the node is done
load_rest(block_data, cur_block, cur_block_key, ld) ==
    IF ld.exc # "" \/ "blocks" \notin DOMAIN block_data THEN ld
    ELSE load_blocks(block_data.blocks, 1, cur_block, cur_block_key, ld)

\* _load: ld holds the values, the missing and extra maps and the exception
load(block_data, cur_block, parent_key, ld) ==
    load_rest(block_data, cur_block, block_key(parent_key, cur_block),
              load_node(block_data, cur_block, block_key(parent_key, cur_block), ld))

\* the loop of _load over the sub-blocks the node names
load_blocks(blks, i, cur_block, cur_block_key, ld) ==
    IF i > Len(blks) \/ ld.exc # "" THEN ld
    ELSE IF ~has_sub_block(cur_block, blks[i].name) THEN [ld EXCEPT !.exc = "AttributeError"]
    ELSE load_blocks(blks, i + 1, cur_block, cur_block_key,
                     load(blks[i], component_map(cur_block)[blks[i].name], cur_block_key, ld))

\* mutation: the maps of the previous load are kept
keep_var_diff == IF DOMAIN var_diff = {} THEN [missing |-> <<>>, extra |-> <<>>] ELSE var_diff

\* self._var_diff = {"missing": {}, "extra": {}}
new_var_diff == [missing |-> <<>>, extra |-> <<>>]

\* mutation: the metadata of the document is merged into the stored one
metadata_merged(data) ==
    [mk \in DOMAIN meta \cup (DOMAIN data \ {"blocks", "name"}) |-> IF mk \in DOMAIN data \ {"blocks", "name"} THEN data[mk] ELSE meta[mk]]

\* the metadata of a document: every top-level key but blocks and name
metadata(data) == [mk \in DOMAIN data \ {"blocks", "name"} |-> data[mk]]

\* mutation: the loaded document invalidates build as well
clear_solve_and_build(run) == run \ {solve, build}

\* the end of update: clear the 'solve' action
clear_solve(run) == IF action_was_run(solve, run) THEN action_clear_was_run(solve, run) ELSE run

\* names = [b.get("name", "?") for b in top_blocks]
top_names(top_blocks) == [i \in DOMAIN top_blocks |-> IF "name" \in DOMAIN top_blocks[i] THEN top_blocks[i].name ELSE "?"]

\* the end of update once _load is through with outcome ld
update_end(data, ld) ==
    IF ld.exc # ""
    THEN [exc |-> ld.exc, arg |-> "", value |-> ld.value, var_diff |-> [missing |-> ld.missing, extra |-> ld.extra], meta |-> meta, run |-> actions_run]
    ELSE [exc |-> "", arg |-> "", value |-> ld.value, var_diff |-> [missing |-> ld.missing, extra |-> ld.extra], meta |-> metadata(data), run |-> clear_solve(actions_run)]

\* the outcome of update(data): the exception and the state it leaves
update(data) ==
    IF ~validate(data) THEN [exc |-> "ValueError", arg |-> "invalid", value |-> value, var_diff |-> var_diff, meta |-> meta, run |-> actions_run]
    ELSE IF Len(data.blocks) # 1 THEN [exc |-> "ValueError", arg |-> "top blocks", value |-> value, var_diff |-> var_diff, meta |-> meta, run |-> actions_run]
    ELSE IF block = None THEN [exc |-> "AttributeError", arg |-> "", value |-> value, var_diff |-> new_var_diff, meta |-> meta, run |-> actions_run]
    ELSE update_end(data, load(data.blocks[1], block, None, [value |-> value, missing |-> new_var_diff.missing, extra |-> new_var_diff.extra, exc |-> ""]))

(***************************************************************************)
(* as_dict: the export of the block tree.                                  *)
(***************************************************************************)
\* mutation: a string index is exported as the tuple that holds it
index_item_whole(b, name, idx) ==
    [value |-> value[b][name][idx], index |-> IF idx.kind = "tuple" THEN idx.v ELSE <<idx>>]

\* one index/value pair of _variable_value
index_item(b, name, idx) == [value |-> value[b][name][idx], index |-> idx_tuple(idx)]

\* BlockInterface._variable_value
variable_value(b, name) ==
    IF is_indexed(b, name)
    THEN [items |-> [i \in DOMAIN index_list(b, name) |-> index_item(b, name, index_list(b, name)[i])]]
    ELSE [scalar |-> value[b][name]]

\* the steps of get_exported_variables for one declaration: c starts as the
\* name alone, and a key is set where c does not hold it
with_value(c, b) == put(c, "value", variable_value(b, c.name))
with_local_name(c) == IF "display_name" \notin DOMAIN c THEN put(c, "display_name", c.name) ELSE c
with_doc(c) == IF "description" \notin DOMAIN c THEN put(c, "description", c.display_name \o " variable") ELSE c
with_units(c, b) == IF var_units(b, c.name) # None THEN put(c, "units", var_units(b, c.name)) ELSE c

\* one dict of get_exported_variables, for the declaration item
exported_variable(b, item) == with_units(with_doc(with_local_name(with_value([name |-> item.name], b))), b)

\* list(block_ui.get_exported_variables()) for the interface attached to b,
\* which reads the variables of the block it refers to
get_exported_variables(b) ==
    IF \E i \in DOMAIN ui[b].decls : ui[b].decls[i].name \notin block_vars(ui[b].block) THEN [exc |-> "AttributeError", variables |-> <<>>]
    ELSE [exc |-> "", variables |-> [i \in DOMAIN ui[b].decls |-> exported_variable(ui[b].block, ui[b].decls[i])]]

\* new_node of _add_to_mapping
bare_node(k) == [name |-> k, blocks |-> <<>>]

\* m with the outcome of the descent in place of its sub-node
put_below(m, at, sub) == [exc |-> sub.exc, m |-> [m EXCEPT !.blocks[at] = sub.m]]

\* the position of the first node named k in a list of nodes, 0 if none
find_node(blks, k) ==
    IF \E i \in DOMAIN blks : blks[i].name = k
    THEN CHOOSE i \in DOMAIN blks : blks[i].name = k /\ \A j \in DOMAIN blks : blks[j].name = k => i <= j
    ELSE 0

\* mutation: the new node is added at the top, whatever its key
add_node_flat(m, nodes, new_data) ==
    IF "blocks" \in DOMAIN m THEN [exc |-> "", m |-> [m EXCEPT !.blocks = Append(@, new_data)]]
    ELSE [exc |-> "", m |-> put(m, "blocks", <<new_data>>)]

RECURSIVE add_node(_, _, _)
RECURSIVE add_below(_, _, _, _)
\* _add_to_mapping from the descent on: follow nodes from m, creating bare
\* nodes as needed, and add new_data at the leaf
add_node(m, nodes, new_data) ==
    IF nodes = <<>>
    THEN IF "blocks" \in DOMAIN m
         THEN IF find_node(m.blocks, new_data.name) # 0 THEN [exc |-> "ValueError", m |-> m]
              ELSE [exc |-> "", m |-> [m EXCEPT !.blocks = Append(@, new_data)]]
         ELSE [exc |-> "", m |-> put(m, "blocks", <<new_data>>)]
    ELSE IF "blocks" \notin DOMAIN m THEN [exc |-> "KeyError", m |-> m]
    ELSE IF find_node(m.blocks, Head(nodes)) = 0
         THEN add_below([m EXCEPT !.blocks = Append(@, bare_node(Head(nodes)))], Len(m.blocks) + 1, nodes, new_data)
         ELSE add_below(m, find_node(m.blocks, Head(nodes)), nodes, new_data)

\* the descent into the sub-node of m at position at
add_below(m, at, nodes, new_data) ==
    put_below(m, at, add_node(m.blocks[at], Tail(nodes), new_data))

\* new_data of _add_to_mapping for the exported variables ev
new_data(key, b, ev) ==
    [name |-> key[Len(key)],
     display_name |-> ui[b].display_name,
     description |-> ui[b].description,
     category |-> ui[b].category,
     variables |-> ev.variables,
     blocks |-> <<>>]

add_to_mapping(m, key, b) ==
    IF get_exported_variables(b).exc # "" THEN [exc |-> get_exported_variables(b).exc, m |-> m]
    ELSE add_node(m, SubSeq(key, 1, Len(key) - 1), new_data(key, b, get_exported_variables(b)))

\* the entries pushed for the sub-blocks of the entry top
pushed(top) ==
    [i \in DOMAIN sub_blocks(top.val) |->
        [key |-> Append(top.key, sub_blocks(top.val)[i]), val |-> component_map(top.val)[sub_blocks(top.val)[i]]]]

\* the entry top added to the mapping if its block carries an interface
visit(top, r) == IF get_block_interface(top.val) THEN add_to_mapping(r.m, top.key, top.val) ELSE r

RECURSIVE block_map_loop(_, _)
\* the while loop of _get_block_map: r holds the mapping and the exception
block_map_loop(stack, r) ==
    IF stack = <<>> \/ r.exc # "" THEN r
    ELSE block_map_loop(SubSeq(stack, 1, Len(stack) - 1) \o pushed(stack[Len(stack)]), visit(stack[Len(stack)], r))

get_block_map ==
    IF block = None THEN [exc |-> "AttributeError", m |-> <<>>]
    ELSE block_map_loop(<<[key |-> <<block_name(block)>>, val |-> block]>>, [exc |-> "", m |-> <<>>])

\* as_dict: the block map, the metadata over it, and the name "__root__"
with_meta(d) ==
    IF d.exc # "" THEN d
    ELSE [exc |-> "",
          m |-> [k \in DOMAIN d.m \cup DOMAIN meta \cup {"name"} |->
                    IF k = "name" THEN "__root__" ELSE IF k \in DOMAIN meta THEN meta[k] ELSE d.m[k]]]

as_dict == with_meta(get_block_map)

(***************************************************************************)
(* The documents handed to update.  Every value has the form of the        *)
(* variable it names: a bare value for a scalar, a list for an indexed one.*)
(***************************************************************************)
Item(t, x) == [index |-> t, value |-> x]

DocUnit == [name |-> "unit",
            variables |-> <<[name |-> "bar", value |-> [scalar |-> 1]],
                            [name |-> "conc", value |-> [items |-> <<Item(<<StrIdx("H2O")>>, 1), Item(<<StrIdx("a")>>, 1)>>]]>>,
            blocks |-> <<>>]
DocFs == [name |-> "fs", variables |-> <<[name |-> "foo", value |-> [scalar |-> 1]]>>, blocks |-> <<DocUnit>>]

\* a tree whose nodes leave out declared variables: fs lists none, unit has
\* no variables key
DocOmit == [name |-> "fs", variables |-> <<>>, blocks |-> <<[name |-> "unit", blocks |-> <<>>]>>]

\* fs lists baz, a variable of the block that the interface does not declare
DocUndeclared == [name |-> "fs", variables |-> <<[name |-> "foo", value |-> [scalar |-> 2]], [name |-> "baz", value |-> [scalar |-> 2]]>>, blocks |-> <<>>]

\* unit lists qux, which is no attribute of the block
DocAbsent == [name |-> "fs", blocks |-> <<[name |-> "unit", variables |-> <<[name |-> "qux", value |-> [scalar |-> 2]]>>, blocks |-> <<>>]>>]

\* fs lists nil, an attribute of the block that is None
DocNil == [name |-> "fs", variables |-> <<[name |-> "foo", value |-> [scalar |-> 2]], [name |-> "nil", value |-> [scalar |-> 2]]>>, blocks |-> <<>>]

\* values for some entries only, names without a value, and display strings
\* that differ from the live ones; pipe and pump list variables
DocPump == [name |-> "pump",
            variables |-> <<[name |-> "flow", value |-> [items |-> <<Item(<<IntIdx(1)>>, 2)>>]],
                            [name |-> "mix", value |-> [items |-> <<Item(<<IntIdx(1), StrIdx("H2O")>>, 2)>>]]>>,
            blocks |-> <<>>]
DocPipe == [name |-> "pipe", display_name |-> "Pipe", variables |-> <<[name |-> "len", value |-> [scalar |-> 2]]>>, blocks |-> <<DocPump>>]
DocPartial == [name |-> "fs", display_name |-> "other", description |-> "other", category |-> "other",
               variables |-> <<[name |-> "foo", display_name |-> "other", units |-> "km"]>>,
               blocks |-> <<[name |-> "unit",
                             variables |-> <<[name |-> "bar"], [name |-> "conc", value |-> [items |-> <<Item(<<StrIdx("a")>>, 2)>>]]>>,
                             blocks |-> <<>>],
                            DocPipe>>]

\* fs lists a value for foo and names a sub-block the tree does not hold
DocLost == [name |-> "fs", variables |-> <<[name |-> "foo", value |-> [scalar |-> 2]]>>, blocks |-> <<[name |-> "gone", blocks |-> <<>>]>>]

Docs ==
    ("good" :> [name |-> "__root__", version |-> 1, blocks |-> <<DocFs>>])
    @@ ("two" :> [name |-> "__root__", blocks |-> <<DocFs, DocUnit>>])
    @@ ("none" :> [name |-> "__root__", version |-> 2, blocks |-> <<>>])
    @@ ("bad" :> [version |-> 2, blocks |-> <<DocUndeclared>>])
    @@ ("omit" :> [name |-> "model", author |-> "me", blocks |-> <<DocOmit>>])
    @@ ("undeclared" :> [name |-> "__root__", blocks |-> <<DocUndeclared>>])
    @@ ("absent" :> [name |-> "__root__", blocks |-> <<DocAbsent>>])
    @@ ("nil" :> [name |-> "__root__", blocks |-> <<DocNil>>])
    @@ ("partial" :> [name |-> "__root__", version |-> 3, blocks |-> <<DocPartial>>])
    @@ ("lost" :> [name |-> "__root__", blocks |-> <<DocLost>>])

\* the documents loaded where the actions are run
RunDocs == {"good", "two"}

\* the documents loaded where update is to reject some of them
RejectDocs == {"good", "partial", "two", "none", "bad", "lost"}

\* the arguments of export_variables: a block and the names to export
ExportArgs == {<<"unit", <<"bar">>>>, <<"pipe", <<"len">>>>, <<"pump", <<"flow", "mix">>>>, <<"pump", <<"flow">>>>, <<"pump", <<"nope">>>>}

\* the arguments of export_variables where the tree is saved
SaveExportArgs == {<<"unit", <<"bar">>>>, <<"pump", <<"flow", "mix">>>>}

\* the values a solve leaves in the variables
SolveValues == {0, 3}

(***************************************************************************)
(* The operations on the block tree.                                       *)
(***************************************************************************)
\* update(data), called for the document labelled doc
do_update(data, doc) ==
    /\ Live
    /\ \E u \in {update(data)} :
           /\ value' = u.value
           /\ var_diff' = u.var_diff
           /\ meta' = u.meta
           /\ actions_run' = u.run
           /\ last' = [NoCall EXCEPT !.op = "update", !.name = doc, !.arg = u.arg, !.exc = u.exc, !.cleared = actions_run \ u.run,
                                     !.ret = IF u.arg = "top blocks" THEN <<Len(data.blocks), top_names(data.blocks)>> ELSE <<>>]
    /\ UNCHANGED <<actions, actions_deps, registered, block, ui, saved, options>>

Update(doc) ==
    /\ doc \in DOMAIN Docs
    /\ do_update(Docs[doc], doc)

\* save(file): the document of as_dict goes to the file; with it the model
\* remembers the values and interfaces it was exported from
Save ==
    /\ Live
    /\ \E d \in {as_dict} :
           /\ saved' = IF d.exc = "" THEN [data |-> d.m, value |-> value, ui |-> ui] ELSE saved
           /\ last' = [NoCall EXCEPT !.op = "save", !.exc = d.exc]
    /\ UNCHANGED <<regvars, block, ui, value, meta, var_diff, options>>

\* load(file, fs) for a file that save has written
Load ==
    /\ DOMAIN saved # {}
    /\ do_update(saved.data, "saved")

\* as_dict()
AsDict ==
    /\ Live
    /\ \E d \in {as_dict} :
           last' = [NoCall EXCEPT !.op = "as_dict", !.exc = d.exc, !.ret = IF d.exc = "" THEN <<d.m>> ELSE <<>>]
    /\ UNCHANGED <<regvars, treevars>>

\* get_var_missing() and get_var_extra(): key is "missing" or "extra"
GetVarDiff(key) ==
    /\ Live
    /\ IF key \in DOMAIN var_diff
       THEN last' = [NoCall EXCEPT !.op = "get_var_" \o key, !.ret = <<var_diff[key]>>]
       ELSE last' = [NoCall EXCEPT !.op = "get_var_" \o key, !.exc = "KeyError"]
    /\ UNCHANGED <<regvars, treevars>>

\* every block that carries the FlowsheetInterface itself sees the
\* interface as _init left it; b carries it from now on
attach_self(b, new) == [x \in DOMAIN ui \cup {b} |-> IF x = b \/ ui[x].owner = "self" THEN new ELSE ui[x]]

\* set_block: _init binds the block, sets the defaults in the saved
\* options and attaches the interface to the block
SetBlock(b) ==
    /\ Live
    /\ block' = b
    /\ options' = set_defaults(options, b)
    /\ ui' = attach_self(b, interface("self", b, options))
    /\ last' = [NoCall EXCEPT !.op = "set_block", !.name = b]
    /\ UNCHANGED <<regvars, value, meta, var_diff, saved>>

\* mutation: no name is validated
validate_export_none(b, decls) == TRUE

\* _validate_export_var for every name of a list of declarations
validate_export_vars(b, decls) == \A i \in DOMAIN decls : decls[i].name \in block_vars(b)

\* export_variables past the construction of the list of declarations
export(b, decls) ==
    /\ Live
    /\ IF ~validate_export_vars(b, decls)
       THEN /\ UNCHANGED ui
            /\ last' = [NoCall EXCEPT !.op = "export_variables", !.name = b, !.args = decls, !.exc = "TypeError"]
       ELSE /\ ui' = put(ui, b, interface(b, b, export_config(decls)))
            /\ last' = [NoCall EXCEPT !.op = "export_variables", !.name = b, !.args = decls]
    /\ UNCHANGED <<regvars, block, value, meta, var_diff, saved, options>>

\* export_variables(block, variables) for a list of names: every name is
\* validated, then the new BlockInterface attaches itself to the block
ExportVariables(b, variables) ==
    /\ b \in Blocks
    /\ export(b, name_decls(variables))

\* export_variables(block, variables) for a mapping of names to overrides,
\* given as the list of its items
ExportVariablesMap(b, items) ==
    /\ b \in Blocks
    /\ export(b, items)

\* BlockInterface(block, options) and set_block_interface(block, options)
\* for the options map the caller also gave to the FlowsheetInterface: _init
\* sets the defaults in the map and attaches the new interface
Attach(b) ==
    /\ Live
    /\ options' = set_defaults(options, b)
    /\ ui' = put(ui, b, interface(b, b, options))
    /\ last' = [NoCall EXCEPT !.op = "BlockInterface", !.name = b]
    /\ UNCHANGED <<regvars, block, value, meta, var_diff, saved>>

\* set_block_interface(block, obj) for the interface object that block
\* `from` carries
SetBlockInterface(b, from) ==
    /\ Live
    /\ from \in DOMAIN ui
    /\ ui' = put(ui, b, ui[from])
    /\ last' = [NoCall EXCEPT !.op = "set_block_interface", !.name = b, !.arg = from]
    /\ UNCHANGED <<regvars, block, value, meta, var_diff, saved, options>>

\* list(get_block_interface(b).get_exported_variables())
GetExportedVariables(b) ==
    /\ Live
    /\ b \in DOMAIN ui
    /\ \E ev \in {get_exported_variables(b)} :
           last' = [NoCall EXCEPT !.op = "get_exported_variables", !.name = b, !.exc = ev.exc, !.ret = <<ev.variables>>]
    /\ UNCHANGED <<regvars, treevars>>

\* a solve of the model outside the interface: every variable, and every
\* entry of an indexed one, takes the value x
SetValues(x) ==
    /\ Live
    /\ value' = [b \in Blocks |-> [v \in block_vars(b) |-> IF is_indexed(b, v) THEN [i \in index_set(b, v) |-> x] ELSE x]]
    /\ last' = [NoCall EXCEPT !.op = "set_values"]
    /\ UNCHANGED <<regvars, block, ui, meta, var_diff, saved, options>>

(***************************************************************************)
(* FlowsheetInterface.__init__                                             *)
(***************************************************************************)
\* the value every variable of the model starts with
initial_value(b, v) == IF is_indexed(b, v) THEN [i \in index_set(b, v) |-> 0] ELSE 0

Init ==
    /\ actions = [a \in InitialActions |-> <<None, None>>]
    /\ actions_deps = WorkflowActions_deps
    /\ actions_run = {}
    /\ registered = InitialActions
    /\ block = None
    /\ ui = ("unit" :> unit_interface)
    /\ value = [b \in Blocks |-> [v \in block_vars(b) |-> initial_value(b, v)]]
    /\ meta = <<>>
    /\ var_diff = <<>>
    /\ saved = <<>>
    /\ options = saved_options
    /\ last = NoCall

\* the registry as a store: registration, lookup, and functions for the
\* names that are not known from the start
Next ==
    \/ \E n \in Names, d \in DepsArgs : AddActionType(n, d)
    \/ \E n \in Names \ InitialActions, a \in SetArgs : SetAction(n, a[1], a[2])
    \/ \E n \in Names : GetAction(n)

Spec == Init /\ [][Next]_vars

\* running the actions: registration of the names that are not known from
\* the start, functions, runs, set_block and update
NextUpdate ==
    \/ \E n \in Names \ InitialActions, d \in RunDepsArgs : AddActionType(n, d)
    \/ \E n \in Names : SetAction(n, "fn", "k0")
    \/ \E n \in Names : RunAction(n)
    \/ \E doc \in RunDocs : Update(doc)
    \/ SetBlock("fs")

SpecUpdate == Init /\ [][NextUpdate]_vars

\* loading documents into the block tree and reading the outcome
NextLoad ==
    \/ SetBlock("fs")
    \/ \E a \in ExportArgs : ExportVariables(a[1], a[2])
    \/ \E doc \in DOMAIN Docs : Update(doc)
    \/ \E key \in {"missing", "extra"} : GetVarDiff(key)
    \/ AsDict

SpecLoad == Init /\ [][NextLoad]_vars

\* documents that update accepts and documents that it rejects, loaded
\* between runs of the standard actions
NextReject ==
    \/ SetBlock("fs")
    \/ \E n \in InitialActions : SetAction(n, "fn", "k0")
    \/ \E n \in InitialActions : RunAction(n)
    \/ \E doc \in RejectDocs : Update(doc)

SpecReject == Init /\ [][NextReject]_vars

\* saving the block tree and loading the file into a tree of the same shape
\* whose values have moved on
NextSave ==
    \/ SetBlock("fs")
    \/ \E a \in SaveExportArgs : ExportVariables(a[1], a[2])
    \/ \E x \in SolveValues : SetValues(x)
    \/ Save
    \/ Load

SpecSave == Init /\ [][NextSave]_vars

(***************************************************************************)
(* Vocabulary of the properties.                                           *)
(***************************************************************************)
\* the direct dependencies of an action
deps_of(a) == IF a \in DOMAIN actions_deps THEN Range(actions_deps[a]) ELSE {}

RECURSIVE reach(_, _)
reach(S, k) == IF k = 0 THEN S ELSE reach(S \cup UNION {deps_of(a) : a \in S}, k - 1)

\* the transitive dependencies of an action
trans_deps(a) == reach(deps_of(a), Cardinality(Names))

\* the actions that depend on a, directly or transitively
trans_dependents(a) == {b \in Names : a \in trans_deps(b)}

Acyclic == \A a \in Names : a \notin trans_deps(a)

has_func(a) == a \in DOMAIN actions /\ actions[a][1] # None

(***************************************************************************)
(* C1.  From a state with no action marked run, an acyclic registry and a  *)
(* function set for every action, run_action(name) returns after invoking  *)
(* the function of each transitive dependency of name exactly once, each   *)
(* after the functions of its own dependencies, name's function last, and  *)
(* name and its transitive dependencies are then all marked run.           *)
(***************************************************************************)
C1_Pre(name) ==
    /\ actions_run = {}
    /\ Acyclic
    /\ name \in DOMAIN actions
    /\ \A a \in DOMAIN actions \cup trans_deps(name) : has_func(a)

C1_Post(name, call) ==
    LET T == trans_deps(name) \cup {name}
        c == call.calls
    IN  /\ call.exc = ""
        /\ Range(c) = T
        /\ Len(c) = Cardinality(T)
        /\ \A i, j \in DOMAIN c : c[i] \in deps_of(c[j]) => i < j
        /\ c[Len(c)] = name
        /\ T \subseteq actions_run'

C1_RunsDependenciesInOrder ==
    [][last'.op = "run_action" /\ C1_Pre(last'.name) => C1_Post(last'.name, last')]_vars

(***************************************************************************)
(* C2.  run_action(name) on an action already marked run returns None,     *)
(* invokes no function and leaves the set of run-marked actions unchanged. *)
(***************************************************************************)
C2_RunOfRunActionIsNoOp ==
    [][last'.op = "run_action" /\ last'.name \in actions_run
        => last'.exc = "" /\ last'.ret = <<>> /\ last'.calls = <<>> /\ actions_run' = actions_run]_vars

\* a run_action on a marked action has returned None; other actions are marked too
C2_Witness ==
    /\ last.op = "run_action" /\ last.exc = "" /\ last.ret = <<>>
    /\ last.name \in actions_run
    /\ deps_of(last.name) # {}

(***************************************************************************)
(* C3.  Whenever run_action(name) executes name's function and marks name  *)
(* run, right afterwards no action that depends on name, directly or       *)
(* transitively, is marked run, whatever its status was before.            *)
(***************************************************************************)
C3_DependentsInvalidated ==
    [][last'.op = "run_action" /\ last'.exc = "" /\ last'.name \notin actions_run
        => /\ last'.name \in actions_run'
           /\ \A a \in trans_dependents(last'.name) : a \notin actions_run']_vars

\* a run has executed an action and removed the run status of a dependent
\* that is not a direct one
C3_Witness ==
    /\ last.op = "run_action" /\ last.exc = ""
    /\ last.name \in actions_run
    /\ \E a \in last.cleared : a \in trans_dependents(last.name) /\ last.name \notin deps_of(a)

(***************************************************************************)
(* C4.  A successful update leaves solve not marked run and the run status *)
(* of every other action as it was.                                        *)
(***************************************************************************)
C4_UpdateClearsSolveOnly ==
    [][last'.op = "update" /\ last'.exc = ""
        => /\ solve \notin actions_run'
           /\ \A a \in Names \ {solve} : (a \in actions_run') <=> (a \in actions_run)]_vars

\* an update has succeeded and removed the run status of solve; build keeps it
C4_Witness ==
    /\ last.op = "update" /\ last.exc = ""
    /\ last.cleared = {solve}
    /\ build \in actions_run

(***************************************************************************)
(* C5.  With build -> solve -> results registered and all three marked     *)
(* run, run_action(results) after a successful update invokes solve's      *)
(* function, then results', and both are marked run afterwards.            *)
(***************************************************************************)
C5_Pre ==
    /\ last.op = "update" /\ last.exc = "" /\ last.cleared = {solve}
    /\ results \in registered
    /\ actions_deps[results] = <<solve>>
    /\ {build, results} \subseteq actions_run

C5_RerunAfterUpdate ==
    [][C5_Pre /\ last'.op = "run_action" /\ last'.name = results
        => /\ last'.exc = ""
           /\ last'.calls = <<solve, results>>
           /\ {solve, results} \subseteq actions_run']_vars

(***************************************************************************)
(* C6.  For a name that is not yet known, add_action_type(name, deps)      *)
(* fails with a value error if deps holds name itself, with a lookup error *)
(* if deps holds a name that is not a known action, and otherwise succeeds *)
(* and registers name with exactly that dependency list.  When deps holds  *)
(* both, either error is accepted.                                         *)
(***************************************************************************)
C6_Outcome(name, d, known, call) ==
    LET self == d.given /\ name \in Range(d.list)
        unknown == d.given /\ \E e \in Range(d.list) : e # name /\ e \notin known
    IN  /\ self /\ ~unknown => call.exc = "ValueError"
        /\ unknown /\ ~self => call.exc = "KeyError"
        /\ self /\ unknown => call.exc \in {"ValueError", "KeyError"}
        /\ ~self /\ ~unknown => /\ call.exc = ""
                                /\ name \in DOMAIN actions'
                                /\ name \in DOMAIN actions_deps'
                                /\ actions_deps'[name] = d.list

C6_AddActionTypeErrors ==
    [][last'.op = "add_action_type" /\ last'.name \notin DOMAIN actions
        => \A d \in DepsArgs : AddActionType(last'.name, d) => C6_Outcome(last'.name, d, DOMAIN actions, last')]_vars

\* the first entry of deps that add_action_type rejects, 0 if there is none
first_rejected(name, d) ==
    LET bad == {i \in DOMAIN d.list : d.list[i] = name \/ d.list[i] \notin DOMAIN actions \cup DOMAIN actions_deps}
    IN  IF ~d.given \/ bad = {} THEN 0 ELSE CHOOSE i \in bad : \A j \in bad : i <= j

\* C6 as amended: the first entry of deps, in list order, that is name
\* itself (value error) or that is neither a known action nor a key of the
\* dependency table, which holds get-results from construction (lookup
\* error), decides the failure; without such an entry the call succeeds
\* and registers name with exactly that dependency list.
C6_FirstRejectedDecides ==
    [][last'.op = "add_action_type" /\ last'.name \notin DOMAIN actions
        => \A d \in DepsArgs : AddActionType(last'.name, d)
            => LET n == last'.name
                   i == first_rejected(n, d)
               IN  IF i = 0
                   THEN /\ last'.exc = ""
                        /\ n \in DOMAIN actions'
                        /\ n \in DOMAIN actions_deps'
                        /\ actions_deps'[n] = (IF d.given THEN d.list ELSE <<>>)
                   ELSE last'.exc = (IF d.list[i] = n THEN "ValueError" ELSE "KeyError")]_vars

\* a registration has succeeded with a dependency on get-results, which is
\* not a known action
C6_Witness ==
    /\ last.op = "add_action_type" /\ last.exc = "" /\ last.ret = <<>>
    /\ results \in deps_of(last.name)
    /\ results \notin DOMAIN actions

(***************************************************************************)
(* C7.  An add_action_type call that fails leaves the registry as it was:  *)
(* the name stays unknown, and a later add_action_type with valid          *)
(* dependencies registers it with them.                                    *)
(***************************************************************************)
C7_FailedAddHasNoEffect ==
    [][/\ last'.op = "add_action_type" /\ last'.exc # ""
          => actions' = actions /\ actions_deps' = actions_deps /\ actions_run' = actions_run
       /\ last'.op = "add_action_type" /\ last'.name \notin registered /\ last'.arg = "valid"
          => \A d \in DepsArgs : AddActionType(last'.name, d)
              => last'.name \in DOMAIN actions_deps' /\ actions_deps'[last'.name] = d.list]_vars

(***************************************************************************)
(* C8.  run_action(name) on a registered action that is not marked run and *)
(* has no function set fails with a value error, invokes no function and   *)
(* changes no run status.                                                  *)
(***************************************************************************)
C8_Pre(name) ==
    /\ name \in registered
    /\ name \notin actions_run
    /\ actions[name][1] = None
    /\ Acyclic
    /\ trans_deps(name) \subseteq registered

C8_NoFunctionNoEffect ==
    [][last'.op = "run_action" /\ C8_Pre(last'.name)
        => last'.exc = "ValueError" /\ last'.calls = <<>> /\ actions_run' = actions_run]_vars

(***************************************************************************)
(* C9.  set_action, get_action and run_action fail with a lookup error for *)
(* a name that was never registered and change nothing; for a registered   *)
(* name get_action returns the pair given to the most recent set_action,   *)
(* or the unset pair if there was none.                                    *)
(***************************************************************************)
C9_LookupAndStoredPair ==
    [][/\ last'.op \in {"set_action", "get_action", "run_action"} /\ last'.name \notin registered
          => last'.exc = "KeyError" /\ actions' = actions /\ actions_deps' = actions_deps /\ actions_run' = actions_run
       /\ last'.op = "get_action" /\ last'.name \in registered
          => last'.exc = "" /\ last'.ret = actions[last'.name]
       /\ last'.op = "set_action" /\ last'.name \in registered
          => \A a \in SetArgs : SetAction(last'.name, a[1], a[2]) => actions'[last'.name] = a
       /\ \A n \in registered : ~(last'.op = "set_action" /\ last'.name = n) => actions'[n] = actions[n]
       /\ \A n \in registered' \ registered : actions'[n] = <<None, None>>]_vars

(***************************************************************************)
(* C10.  add_action_type(name, deps) for a name that is already known      *)
(* raises nothing, whatever deps is, and leaves the function, the keyword  *)
(* arguments and the dependency list of every action and every run status  *)
(* unchanged.                                                              *)
(***************************************************************************)
C10_AddKnownIsNoOp ==
    [][last'.op = "add_action_type" /\ last'.name \in DOMAIN actions
        => /\ last'.exc = ""
           /\ actions' = actions /\ actions_deps' = actions_deps /\ actions_run' = actions_run]_vars

\* add_action_type has returned for a known action that has a function, a
\* dependency and a run status, with a dependency list it would reject
C10_Witness ==
    /\ last.op = "add_action_type" /\ last.ret = <<"known">> /\ last.arg = "invalid"
    /\ has_func(last.name)
    /\ deps_of(last.name) # {}
    /\ last.name \in actions_run

(***************************************************************************)
(* C11.  After any sequence of add_action_type calls, every name in the    *)
(* dependency list of a registered action is itself a registered action,   *)
(* and no dependency list holds the action it belongs to.                  *)
(***************************************************************************)
C11_DepsAreRegistered ==
    \A a \in DOMAIN actions \cap DOMAIN actions_deps :
        \A d \in Range(actions_deps[a]) : d \in DOMAIN actions /\ d # a

\* C11 as amended: every name in the dependency list of a registered action
\* is a registered action or a standard action of WorkflowActions (which
\* names get-results, an action that is not registered at construction),
\* and no dependency list holds the action it belongs to.
C11_DepsAreKnownOrStandard ==
    \A a \in DOMAIN actions \cap DOMAIN actions_deps :
        \A d \in Range(actions_deps[a]) : d \in DOMAIN actions \cup DOMAIN WorkflowActions_deps /\ d # a

\* get_action(get-results) has failed with the lookup error while an action
\* registered by add_action_type holds get-results in its dependency list
C11_Witness ==
    /\ last.op = "get_action" /\ last.name = results /\ last.exc = "KeyError"
    /\ results \notin DOMAIN actions
    /\ \E a \in DOMAIN actions \cap DOMAIN actions_deps : a # results /\ results \in Range(actions_deps[a])

(***************************************************************************)
(* Vocabulary of the properties of the block tree.                         *)
(***************************************************************************)
\* the dot-joined names from the root to a block
path_key(b) == IF b = "fs" THEN "fs" ELSE IF b = "unit" THEN "fs.unit" ELSE IF b = "pipe" THEN "fs.pipe" ELSE "fs.pipe.pump"

\* the names from the root to a block
path_of(b) == IF b = "fs" THEN <<"fs">> ELSE IF b = "unit" THEN <<"fs", "unit">> ELSE IF b = "pipe" THEN <<"fs", "pipe">> ELSE <<"fs", "pipe", "pump">>

\* the blocks below a block
descendants(b) == IF b = "fs" THEN {"unit", "pipe", "pump"} ELSE IF b = "pipe" THEN {"pump"} ELSE {}

\* the names the interface of a block declares
declared(b) == {ui[b].variables[i] : i \in DOMAIN ui[b].variables}

\* the names a document node lists
listed(node) == IF "variables" \in DOMAIN node THEN {node.variables[i].name : i \in DOMAIN node.variables} ELSE {}

RECURSIVE nodes_under(_, _)
\* the nodes of a document from node down, each with the live block it is
\* matched to by the names on the way from the root
nodes_under(node, b) ==
    {[b |-> b, node |-> node]}
    \cup UNION {nodes_under(node.blocks[i], node.blocks[i].name) : i \in {j \in DOMAIN node.blocks : node.blocks[j].name \in Range(sub_blocks(b))}}

\* the nodes of a document that update accepts, matched to the bound tree
nodes_of(data) == nodes_under(data.blocks[1], block)

\* an index as the tuple a document lists for it
as_tuple(idx) == IF idx.kind = "tuple" THEN idx.v ELSE <<idx>>

\* a document variable fits the live variable it names: a bare value for
\* a scalar, listed indices of the index set for an indexed variable
fits(b, dv) ==
    "value" \in DOMAIN dv =>
        IF is_indexed(b, dv.name)
        THEN /\ "items" \in DOMAIN dv.value
             /\ \A i \in DOMAIN dv.value.items : \E idx \in index_set(b, dv.name) : dv.value.items[i].index = as_tuple(idx)
        ELSE "scalar" \in DOMAIN dv.value

\* a document that names only what the bound tree and its interfaces hold:
\* one top-level block, sub-blocks that exist, and for a block with an
\* interface only declared variables, each once, with fitting values
Matches(doc) ==
    /\ block # None
    /\ doc \notin {"two", "none", "bad"}
    /\ \A n \in nodes_of(Docs[doc]) :
        /\ \A i \in DOMAIN n.node.blocks : n.node.blocks[i].name \in Range(sub_blocks(n.b))
        /\ n.b \in DOMAIN ui /\ "variables" \in DOMAIN n.node =>
            /\ listed(n.node) \subseteq declared(n.b) \cap block_vars(n.b)
            /\ \A i, j \in DOMAIN n.node.variables : n.node.variables[i].name = n.node.variables[j].name => i = j
            /\ \A i \in DOMAIN n.node.variables : fits(n.b, n.node.variables[i])

(***************************************************************************)
(* C12: get_var_missing() and get_var_extra() fail with KeyError as long   *)
(* as no update has been performed; after a successful update they return  *)
(* exactly the maps of that update, which hold nothing of earlier updates: *)
(* the maps start absent and only update changes them, a getter raises     *)
(* KeyError while they are absent and returns the stored map otherwise,    *)
(* and every entry a successful update leaves belongs to a node of its own *)
(* document (an extra entry is the declared names the node omits, a        *)
(* missing entry is at a node that lists variables).                       *)
(***************************************************************************)
C12_GettersReturnLastUpdate ==
    /\ DOMAIN var_diff = {}
    /\ [][/\ last'.op # "update" => var_diff' = var_diff
          /\ \A key \in {"missing", "extra"} :
                 last'.op = "get_var_" \o key =>
                     IF DOMAIN var_diff = {} THEN last'.exc = "KeyError"
                     ELSE last'.exc = "" /\ last'.ret = <<var_diff[key]>>
          /\ last'.op = "update" /\ last'.exc = "" =>
                 /\ DOMAIN var_diff' = {"missing", "extra"}
                 /\ \A k \in DOMAIN var_diff'.extra :
                        \E n \in nodes_of(Docs[last'.name]) :
                            /\ path_key(n.b) = k
                            /\ n.b \in DOMAIN ui
                            /\ var_diff'.extra[k] = declared(n.b) \ listed(n.node)
                 /\ \A k \in DOMAIN var_diff'.missing :
                        \E n \in nodes_of(Docs[last'.name]) : path_key(n.b) = k /\ listed(n.node) # {}]_vars

\* get_var_extra() returned the map of an update that found extra
\* variables on unit
C12_Witness ==
    /\ last.op = "get_var_extra"
    /\ last.exc = ""
    /\ "fs.unit" \in DOMAIN last.ret[1]

(***************************************************************************)
(* C13: update fails with a ValueError for a document that fails schema    *)
(* validation ("bad" has no name) and for one whose top-level blocks list  *)
(* does not hold exactly one entry ("none" holds zero, "two" holds two;    *)
(* the error carries the count and the names of the entries), and the call *)
(* changes no variable value, not the metadata, not the stored missing and *)
(* extra maps, and no action's run status.                                 *)
(***************************************************************************)
C13_RejectedUpdateChangesNothing ==
    [][last'.op = "update" /\ last'.name \in {"bad", "two", "none"} =>
           /\ last'.exc = "ValueError"
           /\ value' = value
           /\ meta' = meta
           /\ var_diff' = var_diff
           /\ actions_run' = actions_run
           /\ ui' = ui
           /\ last'.name = "two" => last'.ret = <<2, <<"fs", "unit">>>>
           /\ last'.name = "none" => last'.ret = <<0, <<>>>>]_vars

\* the document with two top-level blocks was rejected after an earlier
\* load had set values, metadata and maps and solve had been run again
C13_Witness ==
    /\ last.op = "update"
    /\ last.name = "two"
    /\ last.exc = "ValueError"
    /\ solve \in actions_run
    /\ DOMAIN meta # {}
    /\ DOMAIN var_diff # {}
    /\ value["fs"]["foo"] # 0

(***************************************************************************)
(* C14: when a document node lists a variable that the interface of the    *)
(* matching live block does not declare, update completes without error    *)
(* and the name of the variable is recorded under "missing" at the         *)
(* dot-joined path of the block.  The documents: "undeclared" lists baz at *)
(* fs (a variable of the block, not declared), "absent" lists qux at unit  *)
(* (no attribute of the block).                                            *)
(***************************************************************************)
C14_UndeclaredRecordedMissing ==
    [][last'.op = "update" /\ block # None /\ last'.name \in {"undeclared", "absent"} =>
           LET k == IF last'.name = "absent" THEN "fs.unit" ELSE "fs"
               n == IF last'.name = "absent" THEN "qux" ELSE "baz"
           IN  /\ last'.exc = ""
               /\ k \in DOMAIN var_diff'.missing
               /\ name_entry(n) \in Range(var_diff'.missing[k])]_vars

\* the declared names of the interface of block n.b that the node omits
omitted(n) == declared(n.b) \ listed(n.node)

\* the nodes of a document at blocks that carry an interface
interfaced_nodes(doc) == {n \in nodes_of(Docs[doc]) : n.b \in DOMAIN ui}

\* update records the omitted declared names of every interfaced node as
\* its extra entry and leaves their values alone
ExtraRecorded(doc) ==
    \A n \in interfaced_nodes(doc) :
        IF omitted(n) = {} THEN path_key(n.b) \notin DOMAIN var_diff'.extra
        ELSE /\ path_key(n.b) \in DOMAIN var_diff'.extra
             /\ var_diff'.extra[path_key(n.b)] = omitted(n)
             /\ \A v \in omitted(n) \cap block_vars(n.b) : value'[n.b][v] = value[n.b][v]

(***************************************************************************)
(* C15: when the interface of a live block declares a variable that the    *)
(* matching document node omits from its variables list, or the node has   *)
(* no variables key, update completes without error, records the name      *)
(* under "extra" at the path key of the block and leaves the value of the  *)
(* variable unchanged; a block with no such variable gets no extra entry.  *)
(***************************************************************************)
C15_OmittedRecordedExtra ==
    [][/\ last'.op = "update"
       /\ block # None
       /\ last'.name \notin {"two", "none", "bad"}
       /\ \E n \in interfaced_nodes(last'.name) : omitted(n) # {}
       => last'.exc = "" /\ ExtraRecorded(last'.name)]_vars

\* the statement of C15 for the documents that list only what the tree and
\* its interfaces hold
C15_OmittedRecordedExtraWhereMatching ==
    [][last'.op = "update" /\ Matches(last'.name) => last'.exc = "" /\ ExtraRecorded(last'.name)]_vars

\* a list of missing entries holds the name v
holds_name(lst, v) == \E i \in DOMAIN lst : "str" \in DOMAIN lst[i] /\ lst[i].str = v

\* the step is a call of the getter for key right after an update that
\* returned successfully
getter_after_update(key) == last.op = "update" /\ last.exc = "" /\ last'.op = "get_var_" \o key

(***************************************************************************)
(* C16 as stated: after loading a document that omits a variable (such as  *)
(* "foo") declared on the interface of a block, get_var_missing() contains *)
(* the name under the key of the path of the block.                        *)
(***************************************************************************)
C16_OmittedUnderMissing ==
    [][getter_after_update("missing") =>
           \A n \in interfaced_nodes(last.name) : \A v \in omitted(n) :
               /\ path_key(n.b) \in DOMAIN last'.ret[1]
               /\ holds_name(last'.ret[1][path_key(n.b)], v)]_vars

(***************************************************************************)
(* C16 amended: after loading a document that omits a variable declared on *)
(* the interface of a block, get_var_extra() contains the name under the   *)
(* key of the path of the block, and get_var_missing() does not.           *)
(***************************************************************************)
C16_OmittedUnderExtra ==
    [][/\ getter_after_update("extra") =>
              \A n \in interfaced_nodes(last.name) : \A v \in omitted(n) :
                  /\ path_key(n.b) \in DOMAIN last'.ret[1]
                  /\ v \in last'.ret[1][path_key(n.b)]
       /\ getter_after_update("missing") =>
              \A n \in interfaced_nodes(last.name) : \A v \in omitted(n) :
                  path_key(n.b) \in DOMAIN last'.ret[1] => ~holds_name(last'.ret[1][path_key(n.b)], v)]_vars

\* get_var_extra() after the load of the document that omits foo at fs and
\* the variables of unit
C16_Witness ==
    /\ last.op = "get_var_extra"
    /\ last.exc = ""
    /\ DOMAIN last.ret[1] = {"fs", "fs.unit"}
    /\ "foo" \in last.ret[1]["fs"]
    /\ "bar" \in last.ret[1]["fs.unit"]

\* the nodes of a document that list variables at blocks without an interface
bare_nodes(doc) == {n \in nodes_of(Docs[doc]) : n.b \notin DOMAIN ui /\ listed(n.node) # {}}

\* update has processed node n: the entry of its block is the one its load
\* leaves (the omitted declared names of an interfaced block, the listed
\* names of a block without an interface)
processed(n) ==
    IF n.b \in DOMAIN ui
    THEN omitted(n) # {} => path_key(n.b) \in DOMAIN var_diff'.extra /\ var_diff'.extra[path_key(n.b)] = omitted(n)
    ELSE listed(n.node) # {} => path_key(n.b) \in DOMAIN var_diff'.missing

\* a scalar variable took the value the node lists for it
took_value(n) ==
    \A i \in DOMAIN n.node.variables :
        LET dv == n.node.variables[i]
        IN  "value" \in DOMAIN dv /\ "scalar" \in DOMAIN dv.value => value'[n.b][dv.name] = dv.value.scalar

(***************************************************************************)
(* C17: when a document node lists variables for a live block that has no  *)
(* interface, update records every listed name, in order, under "missing"  *)
(* at the path key of the block, changes no variable value of that block,  *)
(* and still descends into the child blocks the node names: every child    *)
(* node is processed, and a child with an interface takes the values its   *)
(* node lists.  Stated for the updates that return.                        *)
(***************************************************************************)
C17_NoInterfaceAllMissing ==
    [][last'.op = "update" /\ last'.exc = "" =>
           \A n \in bare_nodes(last'.name) :
               /\ path_key(n.b) \in DOMAIN var_diff'.missing
               /\ var_diff'.missing[path_key(n.b)] = [i \in DOMAIN n.node.variables |-> name_entry(n.node.variables[i].name)]
               /\ value'[n.b] = value[n.b]
               /\ \A i \in DOMAIN n.node.blocks :
                      \A c \in nodes_under(n.node.blocks[i], n.node.blocks[i].name) :
                          /\ processed(c)
                          /\ c.b \in DOMAIN ui /\ "variables" \in DOMAIN c.node => took_value(c)]_vars

\* the document that lists len at pipe and values at pump was loaded while
\* pipe had no interface and pump had one, and the entry of pump changed
C17_Witness ==
    /\ last.op = "update"
    /\ last.name = "partial"
    /\ last.exc = ""
    /\ "pipe" \notin DOMAIN ui
    /\ "pump" \in DOMAIN ui
    /\ value["pump"]["flow"][IntIdx(1)] = 2
    /\ value["pipe"]["len"] = 0

RECURSIVE node_seq(_, _)
RECURSIVE node_seq_from(_, _, _)
\* the nodes of a document from node down, each with the names from the
\* top to it, one entry for every occurrence
node_seq(node, path) ==
    <<[path |-> Append(path, node.name), node |-> node]>> \o node_seq_from(node.blocks, 1, Append(path, node.name))

node_seq_from(blks, i, path) ==
    IF i > Len(blks) THEN <<>> ELSE node_seq(blks[i], path) \o node_seq_from(blks, i + 1, path)

\* the blocks a document of the tree shows: those with an interface and
\* those above one
shown == {b \in Blocks : b \in DOMAIN ui \/ \E c \in descendants(b) : c \in DOMAIN ui}

\* a document variable carries the name, the display strings and the live
\* value of variable v of block b
exports(dv, b, v) ==
    /\ dv.name = v
    /\ dv.display_name = v
    /\ {"value", "description"} \subseteq DOMAIN dv
    /\ ("units" \in DOMAIN dv) = (var_units(b, v) # None)
    /\ IF is_indexed(b, v)
       THEN /\ DOMAIN dv.value = {"items"}
            /\ Len(dv.value.items) = Len(index_list(b, v))
            /\ \A i \in DOMAIN dv.value.items : dv.value.items[i].value = value[b][v][index_list(b, v)[i]]
       ELSE dv.value = [scalar |-> value[b][v]]

\* a document node is the export of the interface of block b
is_export(node, b) ==
    /\ DOMAIN node = {"name", "display_name", "description", "category", "variables", "blocks"}
    /\ node.display_name = ui[b].display_name
    /\ node.description = ui[b].description
    /\ node.category = ui[b].category
    /\ Len(node.variables) = Len(ui[b].variables)
    /\ \A j \in DOMAIN node.variables : exports(node.variables[j], b, ui[b].variables[j])

\* d is the document of the bound tree
is_tree_document(d) ==
    /\ d.name = "__root__"
    /\ Len(d.blocks) = 1
    /\ d.blocks[1].name = block
    /\ LET ns == node_seq(d.blocks[1], <<>>)
       IN  /\ Len(ns) = Cardinality(shown)
           /\ {ns[i].path : i \in DOMAIN ns} = {path_of(b) : b \in shown}
           /\ \A i \in DOMAIN ns :
                  IF ns[i].node.name \in DOMAIN ui THEN is_export(ns[i].node, ns[i].node.name)
                  ELSE DOMAIN ns[i].node = {"name", "blocks"}

(***************************************************************************)
(* C19: for a block tree bound with set_block, as_dict() returns one       *)
(* document named "__root__" with exactly one top-level block, the bound   *)
(* root; every block with an interface appears exactly once, at the chain  *)
(* of names of its position in the tree, with its metadata and exported    *)
(* variables; every ancestor without an interface appears as a bare        *)
(* {name, blocks} node; blocks with no interface and no interfaced         *)
(* descendant do not appear.                                               *)
(***************************************************************************)
C19_AsDictMirrorsTree ==
    [][last'.op = "as_dict" /\ block # None =>
           /\ last'.exc = ""
           /\ is_tree_document(last'.ret[1])]_vars

\* as_dict() of a tree where pump has an interface and pipe, above it, has
\* none
C19_Witness ==
    /\ last.op = "as_dict"
    /\ last.exc = ""
    /\ block = "fs"
    /\ "pipe" \notin DOMAIN ui
    /\ "pump" \in DOMAIN ui
    /\ \E i \in DOMAIN last.ret[1].blocks[1].blocks :
           /\ DOMAIN last.ret[1].blocks[1].blocks[i] = {"name", "blocks"}
           /\ last.ret[1].blocks[1].blocks[i].blocks[1].name = "pump"

\* the entries of the variables list of node n that name v and carry a value
valued(n, v) ==
    IF n.b \in DOMAIN ui /\ "variables" \in DOMAIN n.node
    THEN {n.node.variables[i] : i \in {j \in DOMAIN n.node.variables : n.node.variables[j].name = v /\ "value" \in DOMAIN n.node.variables[j]}}
    ELSE {}

\* the document entries with a value for variable v of block b
valued_for(doc, b, v) == UNION {valued(n, v) : n \in {m \in nodes_of(Docs[doc]) : m.b = b}}

\* variable v of block b after the update is what the document lists for
\* it, entry by entry, and what it was before where the document lists none
value_as_listed(doc, b, v) ==
    IF valued_for(doc, b, v) = {} THEN value'[b][v] = value[b][v]
    ELSE \A dv \in valued_for(doc, b, v) :
             IF is_indexed(b, v)
             THEN \A idx \in index_set(b, v) :
                      IF \E i \in DOMAIN dv.value.items : dv.value.items[i].index = as_tuple(idx)
                      THEN \E i \in DOMAIN dv.value.items : dv.value.items[i].index = as_tuple(idx) /\ value'[b][v][idx] = dv.value.items[i].value
                      ELSE value'[b][v][idx] = value[b][v][idx]
             ELSE value'[b][v] = dv.value.scalar

exported_of(uis) == UNION {{<<b, uis[b].variables[i]>> : i \in DOMAIN uis[b].variables} : b \in DOMAIN uis}

(***************************************************************************)
(* C18: round trip.  The document exported from a tree by save, loaded     *)
(* into a tree of the same shape and the same interface declarations,      *)
(* succeeds, makes every exported variable (each scalar, each entry of     *)
(* each indexed variable) equal to the value it had in the exporting tree, *)
(* and yields empty missing and extra maps; loaded into the exporting tree *)
(* itself, whose values are as saved, it changes no value.                 *)
(***************************************************************************)
C18_RoundTrip ==
    [][last'.op = "update" /\ last'.name = "saved" /\ ui = saved.ui /\ block # None =>
           /\ last'.exc = ""
           /\ \A e \in exported_of(saved.ui) : value'[e[1]][e[2]] = saved.value[e[1]][e[2]]
           /\ var_diff' = [missing |-> <<>>, extra |-> <<>>]
           /\ value = saved.value => value' = value]_vars

(***************************************************************************)
(* Running actions whose functions may raise.                              *)
(***************************************************************************)
\* the names registered where functions may raise
RaiseNames == {results}

\* the documents loaded where functions may raise
RaiseDocs == {"good"}

NextRaise ==
    \/ \E n \in RaiseNames, d \in RunDepsArgs : AddActionType(n, d)
    \/ \E n \in InitialActions \cup RaiseNames, a \in SetArgs : SetAction(n, a[1], a[2])
    \/ \E n \in InitialActions \cup RaiseNames : RunAction(n)
    \/ \E doc \in RaiseDocs : Update(doc)
    \/ SetBlock("fs")

SpecRaise == Init /\ [][NextRaise]_vars

\* the step is a call of run_action in which a registered function raised
func_raised == last'.op = "run_action" /\ last'.exc = "FuncError"

(***************************************************************************)
(* C28: if the function of an action raises during run_action(name), the   *)
(* error reaches the caller, name is not marked run, no dependent of name  *)
(* has its run status cleared by the call, and the dependencies run on the *)
(* way stay marked run; the same when the function of a dependency raises, *)
(* and then the function of name is never invoked.  The function that      *)
(* raised is the last one invoked.                                         *)
(***************************************************************************)
C28_RaisingFunctionLeavesStatus ==
    [][func_raised =>
           LET calls == last'.calls
               failed == calls[Len(calls)]
           IN  /\ calls # <<>>
               /\ last'.name \notin actions_run'
               /\ failed \notin actions_run'
               /\ last'.cleared \cap trans_dependents(last'.name) = {}
               /\ \A i \in 1..(Len(calls) - 1) : calls[i] \in actions_run' /\ calls[i] # last'.name
               /\ actions_run \ last'.cleared \subseteq actions_run'
               /\ failed # last'.name => failed \in trans_deps(last'.name)]_vars

\* run_action(get-results) ran build, then the function of solve raised:
\* build stays marked run, solve and get-results are not marked
C28_Witness ==
    /\ last.op = "run_action"
    /\ last.exc = "FuncError"
    /\ last.name = results
    /\ last.calls = <<build, solve>>
    /\ actions_run = {build}

(***************************************************************************)
(* C29: in every state reachable by add_action_type, set_action,           *)
(* run_action and update, the set of actions marked run is closed under    *)
(* dependencies: every action marked run has all of its direct             *)
(* dependencies marked run.                                                *)
(***************************************************************************)
C29_RunSetClosedUnderDeps ==
    \A a \in actions_run : deps_of(a) \subseteq actions_run

(***************************************************************************)
(* C30: for every registry reachable through add_action_type calls on a    *)
(* fresh FlowsheetInterface the dependency relation is acyclic: no action  *)
(* is among its own transitive dependencies.                               *)
(***************************************************************************)
C30_DependenciesAcyclic == Acyclic

(***************************************************************************)
(* C26: the run status of solve is cleared whenever new data is loaded     *)
(* into the tree: an update call that changes a live variable value leaves *)
(* solve not marked run, also when it aborts partway with a child-block    *)
(* lookup error after values were applied to earlier blocks.               *)
(***************************************************************************)
C26_LoadedDataClearsSolve ==
    [][last'.op = "update" /\ value' # value => solve \notin actions_run']_vars

\* the top-level keys of a document that are metadata
meta_keys(d) == DOMAIN d \ {"name", "blocks"}

(***************************************************************************)
(* C25: after a successful update(data), as_dict() returns a document      *)
(* whose top-level keys other than name and blocks are exactly those of    *)
(* data, with the same values (the metadata of earlier updates is          *)
(* replaced, not merged); its name is "__root__" whatever name data        *)
(* carried, and its blocks entry is the exported tree.                     *)
(***************************************************************************)
C25_AsDictCarriesLastMetadata ==
    [][last.op = "update" /\ last.exc = "" /\ last'.op = "as_dict" =>
           /\ last'.exc = ""
           /\ meta_keys(last'.ret[1]) = meta_keys(Docs[last.name])
           /\ \A k \in meta_keys(Docs[last.name]) : last'.ret[1][k] = Docs[last.name][k]
           /\ is_tree_document(last'.ret[1])]_vars

\* as_dict() after the document named "model" with the key author was
\* loaded over the metadata of an earlier document with the key version
C25_Witness ==
    /\ last.op = "as_dict"
    /\ last.exc = ""
    /\ meta_keys(last.ret[1]) = {"author"}
    /\ value["fs"]["foo"] = 1

(***************************************************************************)
(* Attaching interfaces to blocks.                                         *)
(***************************************************************************)
\* the options maps the FlowsheetInterface is constructed with where
\* interfaces are attached: no display name, description or category
AttachOptions ==
    {[variables |-> <<>>],
     [variables |-> <<[name |-> "foo", display_name |-> "Foo", description |-> "the foo"]>>]}

\* the blocks interfaces are attached to
AttachBlocks == {"fs", "pipe"}

\* export_variables with a list of names: a variable, a name the block
\* does not hold, an attribute that is None, a sub-block
AttachExportArgs == {<<"pipe", <<"len">>>>, <<"pipe", <<"nope">>>>, <<"fs", <<"foo", "nil">>>>, <<"fs", <<"unit">>>>}

\* export_variables with a mapping from names to overrides
AttachExportMaps ==
    {<<"pipe", <<[name |-> "len", display_name |-> "Length", description |-> "length of the pipe"]>>>>,
     <<"pipe", <<[name |-> "nope", display_name |-> "Nope"]>>>>}

InitAttach ==
    /\ actions = [a \in InitialActions |-> <<None, None>>]
    /\ actions_deps = WorkflowActions_deps
    /\ actions_run = {}
    /\ registered = InitialActions
    /\ block = None
    /\ ui = ("unit" :> unit_interface)
    /\ value = [b \in Blocks |-> [v \in block_vars(b) |-> initial_value(b, v)]]
    /\ meta = <<>>
    /\ var_diff = <<>>
    /\ saved = <<>>
    /\ options \in AttachOptions
    /\ last = NoCall

NextAttach ==
    \/ \E b \in AttachBlocks : SetBlock(b)
    \/ \E a \in AttachExportArgs : ExportVariables(a[1], a[2])
    \/ \E a \in AttachExportMaps : ExportVariablesMap(a[1], a[2])
    \/ \E b \in AttachBlocks : Attach(b)
    \/ \E b \in AttachBlocks, from \in AttachBlocks : SetBlockInterface(b, from)
    \/ \E b \in AttachBlocks : GetExportedVariables(b)
    \/ AsDict

SpecAttach == InitAttach /\ [][NextAttach]_vars

(***************************************************************************)
(* C21: export_variables(block, variables) fails with a TypeError if any   *)
(* given name, in the sequence form or the mapping form, is not an         *)
(* attribute of the block or names an attribute that is not a variable,    *)
(* and it fails before any interface is created: the interfaces the blocks *)
(* carry are the same as before the call.  With only variables named, the  *)
(* call attaches an interface that declares them.                          *)
(***************************************************************************)
C21_ExportValidatesNames ==
    [][last'.op = "export_variables" =>
           IF \E i \in DOMAIN last'.args : last'.args[i].name \notin block_vars(last'.name)
           THEN last'.exc = "TypeError" /\ ui' = ui /\ options' = options
           ELSE /\ last'.exc = ""
                /\ last'.name \in DOMAIN ui'
                /\ ui'[last'.name].block = last'.name
                /\ ui'[last'.name].decls = last'.args]_vars

\* the mapping form named an attribute pipe does not hold and failed, and
\* pipe keeps the interface an earlier call attached
C21_Witness ==
    /\ last.op = "export_variables"
    /\ last.exc = "TypeError"
    /\ last.name = "pipe"
    /\ "display_name" \in DOMAIN last.args[1]
    /\ "pipe" \in DOMAIN ui
    /\ ui["pipe"].variables = <<"len">>

\* the interface block b carries has the defaults of b
has_defaults_of(b) ==
    /\ b \in DOMAIN ui'
    /\ ui'[b].display_name = block_name(b)
    /\ ui'[b].description = (IF block_doc(b) # None THEN block_doc(b) ELSE "none")
    /\ ui'[b].category = "default"

(***************************************************************************)
(* C22: every set_block(block) call on a FlowsheetInterface whose options  *)
(* gave no display name, description or category applies the defaults for  *)
(* that block: the display name is the name of the block, the description  *)
(* its doc string or "none", the category "default"; also for a second     *)
(* set_block with a different block, and likewise when one options map is  *)
(* used to attach interfaces to two different blocks.                      *)
(***************************************************************************)
C22_DefaultsOfTheBlock ==
    [][last'.op \in {"set_block", "BlockInterface"} => has_defaults_of(last'.name)]_vars

\* the variables option names something that is no variable of block b
names_no_variable(opts, b) ==
    "variables" \in DOMAIN opts /\ \E i \in DOMAIN opts.variables : opts.variables[i].name \notin block_vars(b)

(***************************************************************************)
(* C23: attaching an interface whose variables option names an attribute   *)
(* that does not exist on the block, or one that is not a variable, fails  *)
(* with a TypeError at the attaching call itself, BlockInterface(block,    *)
(* options) or FlowsheetInterface.set_block(block), and no later call of   *)
(* get_exported_variables() or as_dict() fails for it.                     *)
(***************************************************************************)
C23_AttachValidatesNames ==
    [][/\ last'.op \in {"set_block", "BlockInterface"} /\ names_no_variable(options, last'.name) => last'.exc = "TypeError"
       /\ last'.op \in {"get_exported_variables", "as_dict"} /\ block # None => last'.exc = ""]_vars

(***************************************************************************)
(* C24: in every state reachable by set_block_interface, BlockInterface    *)
(* construction, export_variables and set_block calls, the interface that  *)
(* get_block_interface(b) returns for a block that carries one has b as    *)
(* its block property: an interface is attached to exactly one block,      *)
(* never to two blocks at once.                                            *)
(***************************************************************************)
C24_InterfaceRefersToItsBlock ==
    \A b \in DOMAIN ui : ui[b].block = b

\* the declaration overrides key of the record rec exported for it
override_carried(decl, rec, key) == key \in DOMAIN decl => key \in DOMAIN rec /\ rec[key] = decl[key]

(***************************************************************************)
(* C27: when a variable declaration supplies a display-name or description *)
(* override (mapping form of export_variables, or an entry of the          *)
(* variables option), the record get_exported_variables() produces for     *)
(* that variable carries the overriding display name and description; the  *)
(* local name of the variable and its doc string are used only when no     *)
(* override was declared.                                                  *)
(***************************************************************************)
C27_OverridesExported ==
    [][last'.op = "get_exported_variables" /\ last'.exc = "" =>
           \A i \in DOMAIN ui[last'.name].decls :
               /\ last'.ret[1][i].name = ui[last'.name].decls[i].name
               /\ override_carried(ui[last'.name].decls[i], last'.ret[1][i], "display_name")
               /\ override_carried(ui[last'.name].decls[i], last'.ret[1][i], "description")]_vars

====
